---- MODULE Spec2Model ----
(***************************************************************************)
(* Bear (TieWay59/Bear, Rust): the Envelope codec of rust/intercept and    *)
(* the semantic pipeline of rust/bear/src/bin/main.rs.                     *)
(*                                                                         *)
(* Bytes are integers 0..255, byte strings are sequences of them.  A Rust  *)
(* String / PathBuf of the codec is the sequence of its bytes.             *)
(***************************************************************************)
EXTENDS Integers, Sequences, FiniteSets, TLC

VARIABLES
    \* ---- the Event Log, its writers and its readers (intercept/src/lib.rs)
    log,        \* the bytes of the writer / Event Log file
    written,    \* history: one record per write_into call on `log`
    phase,      \* "writing" while frames are appended, "closed" afterwards
    fragment,   \* the partial trailing bytes appended after the last frame
    rpos,       \* position (1-based) of a reader calling read_from directly
    results,    \* the values the successive read_from calls returned
    gpos,       \* position of the Event Source's reader
    yielded,    \* the Executions the Event Source has yielded
    warnings,   \* warnings the Event Source has surfaced
    gstate,     \* "open", "ended" (clean end of file) or "failed"
    \* ---- Reporters and the Collector (spec 4.2, 5)
    rpc,        \* per Reporter: "length", "payload" or "done"
    conn,       \* per Reporter: the bytes sent over its connection
    hpc,        \* per connection handler: "reading", "done" or "failed"
    queue,      \* decoded Envelopes waiting for the single writer
    wpc,        \* the writer: <<>> when idle, else <<the payload still to write>>
    appended,   \* the Envelopes the writer has taken from the queue, in order
    \* ---- SemanticTransform (bear/src/bin/main.rs)
    self,       \* the configured SemanticTransform
    tin,        \* the Meaning handed to apply
    tout,       \* apply(tin)
    tout2,      \* apply(apply(tin))
    tstage,     \* "idle", "once" or "twice"
    pin,        \* the CompilerPass handed to transform_pass
    pout,       \* what transform_pass returned, or Panic
    pstage,     \* "idle" or "called"
    \* ---- Application::run, Semantic mode
    events,     \* the Executions of the event source, in Event Log order
    epos,       \* the next Execution to be generated
    entries,    \* what the output writer has been handed so far
    exit_code   \* "running", "SUCCESS" or "FAILURE"

logVars == <<log, written, phase, fragment, rpos, results, gpos, yielded, warnings, gstate>>
collectVars == <<rpc, conn, hpc, queue, wpc, appended>>
transformVars == <<tin, tout, tout2, tstage>>
passVars == <<pin, pout, pstage>>
pipeVars == <<events, epos, entries, exit_code>>

vars == <<logVars, collectVars, self, transformVars, passVars, pipeVars>>

-----------------------------------------------------------------------------
(* Bounds of the model *)

\* u32 is 32 bits wide in the source.  TLC's integers are 32-bit signed, so
\* 2^32 cannot even be written; the model keeps the 4-byte prefix and the
\* base-256 big-endian layout and narrows only the integer type of the
\* length, to LengthBits bits, so that "does not fit" is reachable.
LengthBits == 8
\* frames appended to one log
MaxFrames == 2
\* length of the long argument of the oversized sample execution
BigLen == 150

-----------------------------------------------------------------------------
(* Result values *)

Err == [ok |-> FALSE]
Ok(v, p) == [ok |-> TRUE, val |-> v, pos |-> p]

\* n copies of the byte b
Repeat(b, n) == [i \in 1..n |-> b]

\* `e` evaluated once and handed to F: the value of a `let` binding
Bind(e, F(_)) == CHOOSE r \in { F(v) : v \in {e} } : TRUE

-----------------------------------------------------------------------------
(* serde_json::to_string(&Envelope), as #[derive(Serialize)] emits it:      *)
(* compact, fields in declaration order, newtypes as their inner value.    *)

K_rid         == <<123, 34, 114, 105, 100, 34, 58>>                                   \* {"rid":
K_timestamp   == <<44, 34, 116, 105, 109, 101, 115, 116, 97, 109, 112, 34, 58>>       \* ,"timestamp":
K_event       == <<44, 34, 101, 118, 101, 110, 116, 34, 58>>                          \* ,"event":
K_pid         == <<123, 34, 112, 105, 100, 34, 58>>                                   \* {"pid":
K_execution   == <<44, 34, 101, 120, 101, 99, 117, 116, 105, 111, 110, 34, 58>>       \* ,"execution":
K_executable  == <<123, 34, 101, 120, 101, 99, 117, 116, 97, 98, 108, 101, 34, 58>>   \* {"executable":
K_arguments   == <<44, 34, 97, 114, 103, 117, 109, 101, 110, 116, 115, 34, 58>>       \* ,"arguments":
K_working_dir == <<44, 34, 119, 111, 114, 107, 105, 110, 103, 95, 100, 105, 114, 34, 58>>  \* ,"working_dir":
K_environment == <<44, 34, 101, 110, 118, 105, 114, 111, 110, 109, 101, 110, 116, 34, 58>> \* ,"environment":
K_close       == <<125, 125, 125>>                                                    \* }}}

\* decimal text of an unsigned integer
RECURSIVE FormatU(_)
FormatU(n) == IF n < 10 THEN <<48 + n>> ELSE FormatU(n \div 10) \o <<48 + (n % 10)>>

\* JSON string escaping: '"' -> \", '\' -> \\, line feed -> \n.  Every
\* character yields two slots, an optional backslash and the character's
\* code; the empty slots (-1) are dropped.
EscapeChars(s) ==
    LET slot(j) == LET c == s[(j + 1) \div 2] IN
                   IF j % 2 = 1
                   THEN (IF c \in {34, 92, 10} THEN 92 ELSE -1)
                   ELSE (IF c = 10 THEN 110 ELSE c)
    IN SelectSeq([j \in 1..(2 * Len(s)) |-> slot(j)], LAMBDA c : c >= 0)

FormatStr(s) == <<34>> \o EscapeChars(s) \o <<34>>

\* a Vec<String> as a JSON array
RECURSIVE FormatElems(_)
FormatElems(a) ==
    IF a = <<>> THEN <<>>
    ELSE IF Len(a) = 1 THEN FormatStr(a[1])
    ELSE FormatStr(a[1]) \o <<44>> \o FormatElems(Tail(a))

FormatArray(a) == <<91>> \o FormatElems(a) \o <<93>>

\* a HashMap<String, String> as a JSON object; `order` is the order in which
\* the map's iterator visits the keys (unspecified, any permutation)
RECURSIVE FormatEntries(_, _)
FormatEntries(m, order) ==
    IF order = <<>> THEN <<>>
    ELSE LET kv == FormatStr(order[1]) \o <<58>> \o FormatStr(m[order[1]])
         IN IF Len(order) = 1 THEN kv ELSE kv \o <<44>> \o FormatEntries(m, Tail(order))

FormatMap(m, order) == <<123>> \o FormatEntries(m, order) \o <<125>>

\* Path::to_str: None unless the path is valid UTF-8 (no byte of the model's
\* alphabet above 127 ever is)
IsUtf8(s) == \A i \in 1..Len(s) : s[i] < 128

\* serde_json::to_string(&self): fails on a path that is not UTF-8
to_string(x, order) ==
    LET e == x.event.execution IN
    IF ~(IsUtf8(e.executable) /\ IsUtf8(e.working_dir)) THEN Err
    ELSE [ok |-> TRUE,
          text |-> K_rid \o FormatU(x.rid)
                   \o K_timestamp \o FormatU(x.timestamp)
                   \o K_event \o K_pid \o FormatU(x.event.pid)
                   \o K_execution \o K_executable \o FormatStr(e.executable)
                   \o K_arguments \o FormatArray(e.arguments)
                   \o K_working_dir \o FormatStr(e.working_dir)
                   \o K_environment \o FormatMap(e.environment, order)
                   \o K_close]

-----------------------------------------------------------------------------
(* serde_json::from_slice::<Envelope>.  The parser accepts the compact,     *)
(* declaration-ordered texts to_string emits; serde_json accepts more      *)
(* (white space, other key orders, other escapes), none of which a writer  *)
(* of this program produces.                                               *)

Lit(bs, p, lit) == Len(lit) <= Len(bs) - p + 1 /\ SubSeq(bs, p, p + Len(lit) - 1) = lit

RECURSIVE ParseDigits(_, _, _)
ParseDigits(bs, p, acc) ==
    IF p <= Len(bs) /\ bs[p] \in 48..57
    THEN ParseDigits(bs, p + 1, acc * 10 + (bs[p] - 48))
    ELSE Ok(acc, p)

\* a JSON number with no sign, fraction or exponent; no leading zero
ParseU(bs, p) ==
    IF p > Len(bs) \/ bs[p] \notin 48..57 THEN Err
    ELSE IF bs[p] = 48
         THEN (IF p + 1 <= Len(bs) /\ bs[p + 1] \in 48..57 THEN Err ELSE Ok(0, p + 1))
         ELSE ParseDigits(bs, p, 0)

\* the number of backslashes that immediately precede position q, from lo on
BackslashRun(bs, lo, q) ==
    CHOOSE k \in 0..(q - lo) :
        /\ \A j \in (q - k)..(q - 1) : bs[j] = 92
        /\ (q - k = lo \/ bs[q - k - 1] # 92)

\* position q holds a character escaped by a backslash before it
Escaped(bs, lo, q) == BackslashRun(bs, lo, q) % 2 = 1

\* the characters between the quotes: -1 for the backslash that opens an
\* escape, -2 for what no JSON string may hold (a control character, an
\* escape the parser does not know, a byte that is not UTF-8)
Unescape(raw) ==
    LET code(i) == LET c == raw[i] IN
                   IF Escaped(raw, 1, i)
                   THEN (IF c \in {34, 92} THEN c ELSE IF c = 110 THEN 10 ELSE -2)
                   ELSE IF c = 92 THEN -1
                   ELSE IF c < 32 \/ c >= 128 THEN -2
                   ELSE c
        codes == [i \in 1..Len(raw) |-> code(i)]
    IN IF \E i \in 1..Len(raw) : code(i) = -2 THEN Err
       ELSE [ok |-> TRUE, val |-> SelectSeq(codes, LAMBDA c : c >= 0)]

\* a JSON string at p: up to the first quote that is not escaped
ParseStr(bs, p) ==
    IF ~(p <= Len(bs) /\ bs[p] = 34) THEN Err
    ELSE LET IsEnd(q) == bs[q] = 34 /\ ~Escaped(bs, p + 1, q)
             ends == { q \in (p + 1)..Len(bs) : IsEnd(q) /\ \A r \in (p + 1)..(q - 1) : ~IsEnd(r) }
         IN IF ends = {} THEN Err
            ELSE Bind(CHOOSE q \in ends : TRUE,
                      LAMBDA q : Bind(Unescape(SubSeq(bs, p + 1, q - 1)),
                                      LAMBDA u : IF u.ok THEN Ok(u.val, q + 1) ELSE Err))

RECURSIVE ParseElems(_, _, _)
ParseElems(bs, p, acc) ==
    Bind(ParseStr(bs, p), LAMBDA s :
        IF ~s.ok THEN Err
        ELSE IF Lit(bs, s.pos, <<44>>) THEN ParseElems(bs, s.pos + 1, Append(acc, s.val))
        ELSE IF Lit(bs, s.pos, <<93>>) THEN Ok(Append(acc, s.val), s.pos + 1)
        ELSE Err)

ParseArray(bs, p) ==
    IF ~Lit(bs, p, <<91>>) THEN Err
    ELSE IF Lit(bs, p + 1, <<93>>) THEN Ok(<<>>, p + 2)
    ELSE ParseElems(bs, p + 1, <<>>)

EmptyMap == [k \in {} |-> <<>>]

\* a later duplicate of a key replaces the earlier entry, as HashMap::insert
RECURSIVE ParseEntries(_, _, _)
ParseEntries(bs, p, acc) ==
    Bind(ParseStr(bs, p), LAMBDA k :
        IF ~k.ok \/ ~Lit(bs, k.pos, <<58>>) THEN Err
        ELSE Bind(ParseStr(bs, k.pos + 1), LAMBDA v :
            IF ~v.ok THEN Err
            ELSE IF Lit(bs, v.pos, <<44>>) THEN ParseEntries(bs, v.pos + 1, (k.val :> v.val) @@ acc)
            ELSE IF Lit(bs, v.pos, <<125>>) THEN Ok((k.val :> v.val) @@ acc, v.pos + 1)
            ELSE Err))

ParseMap(bs, p) ==
    IF ~Lit(bs, p, <<123>>) THEN Err
    ELSE IF Lit(bs, p + 1, <<125>>) THEN Ok(EmptyMap, p + 2)
    ELSE ParseEntries(bs, p + 1, EmptyMap)

\* one `key value` step: the literal key, then the value parsed by kind
Field(bs, p, key, kind) ==
    IF ~Lit(bs, p, key) THEN Err
    ELSE LET q == p + Len(key) IN
         CASE kind = "u"   -> ParseU(bs, q)
           [] kind = "s"   -> ParseStr(bs, q)
           [] kind = "arr" -> ParseArray(bs, q)
           [] kind = "map" -> ParseMap(bs, q)

\* the whole slice must be one Envelope: trailing bytes are a format error
from_slice(bs) ==
    Bind(Field(bs, 1, K_rid, "u"), LAMBDA f1 : IF ~f1.ok THEN Err ELSE
    Bind(Field(bs, f1.pos, K_timestamp, "u"), LAMBDA f2 : IF ~f2.ok THEN Err ELSE
    Bind(Field(bs, f2.pos, K_event \o K_pid, "u"), LAMBDA f3 : IF ~f3.ok THEN Err ELSE
    Bind(Field(bs, f3.pos, K_execution \o K_executable, "s"), LAMBDA f4 : IF ~f4.ok THEN Err ELSE
    Bind(Field(bs, f4.pos, K_arguments, "arr"), LAMBDA f5 : IF ~f5.ok THEN Err ELSE
    Bind(Field(bs, f5.pos, K_working_dir, "s"), LAMBDA f6 : IF ~f6.ok THEN Err ELSE
    Bind(Field(bs, f6.pos, K_environment, "map"), LAMBDA f7 :
        IF f7.ok /\ Lit(bs, f7.pos, K_close) /\ f7.pos + Len(K_close) = Len(bs) + 1
        THEN [ok |-> TRUE,
              val |-> [rid |-> f1.val, timestamp |-> f2.val,
                       event |-> [pid |-> f3.val,
                                  execution |-> [executable |-> f4.val,
                                                 arguments |-> f5.val,
                                                 working_dir |-> f6.val,
                                                 environment |-> f7.val]]]]
        ELSE Err)))))))

-----------------------------------------------------------------------------
(* Envelope::write_into / Envelope::read_from  (intercept/src/lib.rs)       *)

\* the number of values of the length's integer type (2^32 in the source)
U32Modulus == 2 ^ LengthBits

\* `bytes.len() as u32`: a narrowing cast, the high bits are dropped
AsU32(n) == n % U32Modulus

\* u32::to_be_bytes
\* variant: the length in little-endian byte order
to_le_bytes(n) ==
    << n % 256, (n \div 256) % 256, (n \div 65536) % 256, (n \div 16777216) % 256 >>

to_be_bytes(n) ==
    << (n \div 16777216) % 256, (n \div 65536) % 256, (n \div 256) % 256, n % 256 >>

\* variant: the prefix read in little-endian byte order
from_le_bytes(b) ==
    IF b[4] >= 128 THEN 2147483647
    ELSE b[4] * 16777216 + b[3] * 65536 + b[2] * 256 + b[1]

\* u32::from_be_bytes(..) as usize.  A value of 2^31 or more is beyond TLC's
\* integers and beyond the length of every stream of the model: it is
\* represented by the largest integer, which read_exact refuses all the same.
from_be_bytes(b) ==
    IF b[1] >= 128 THEN 2147483647
    ELSE b[1] * 16777216 + b[2] * 65536 + b[3] * 256 + b[4]

\* the two buffers write_into hands to write_all, in order
FrameParts(x, order) ==
    Bind(to_string(x, order), LAMBDA s :
        IF ~s.ok THEN Err
        ELSE Bind(AsU32(Len(s.text)), LAMBDA length :
                [ok |-> TRUE, val |-> length, prefix |-> to_be_bytes(length), bytes |-> s.text]))

\* Envelope::write_into(&self, writer): the returned value and the writer after
write_into(x, order, writer) ==
    Bind(FrameParts(x, order), LAMBDA f :
        IF ~f.ok THEN [ok |-> FALSE, out |-> writer]
        ELSE [ok |-> TRUE, val |-> f.val, out |-> (writer \o f.prefix) \o f.bytes])

\* Read::read_exact on the stream `bs` at position p
read_exact(bs, p, n) ==
    IF n <= Len(bs) - p + 1 THEN Ok(SubSeq(bs, p, p + n - 1), p + n) ELSE Err

\* Envelope::read_from(reader): the result and the reader's position after.
\* A failed read_exact leaves the position unspecified; a file reader has
\* consumed the stream to its end, which is what the model records.
read_from(bs, p) ==
    Bind(read_exact(bs, p, 4), LAMBDA l :
        IF ~l.ok THEN [ok |-> FALSE, err |-> "io", pos |-> Len(bs) + 1]
        ELSE Bind(read_exact(bs, l.pos, from_be_bytes(l.val)), LAMBDA b :
            IF ~b.ok THEN [ok |-> FALSE, err |-> "io", pos |-> Len(bs) + 1]
            ELSE Bind(from_slice(b.val), LAMBDA e :
                IF ~e.ok THEN [ok |-> FALSE, err |-> "format", pos |-> b.pos]
                ELSE [ok |-> TRUE, val |-> e.val, pos |-> b.pos])))

-----------------------------------------------------------------------------
(* Sample values *)

S_cc    == <<47, 117, 115, 114, 47, 98, 105, 110, 47, 99, 99>>   \* /usr/bin/cc
S_ls    == <<47, 98, 105, 110, 47, 108, 115>>                    \* /bin/ls
S_proj  == <<47, 112, 114, 111, 106>>                            \* /proj
S_c     == <<45, 99>>                                            \* -c
S_a_c   == <<97, 46, 99>>                                        \* a.c
S_b_c   == <<98, 46, 99>>                                        \* b.c
S_o     == <<45, 111>>                                           \* -o
S_a_o   == <<97, 46, 111>>                                       \* a.o
S_l     == <<45, 108>>                                           \* -l
S_Wall  == <<45, 87, 97, 108, 108>>                              \* -Wall
S_vers  == <<45, 45, 118, 101, 114, 115, 105, 111, 110>>         \* --version
S_PATH  == <<80, 65, 84, 72>>                                    \* PATH
S_bin   == <<47, 98, 105, 110>>                                  \* /bin
S_HOME  == <<72, 79, 77, 69>>                                    \* HOME
S_root  == <<47, 114, 111, 111, 116>>                            \* /root
S_quote == <<45, 68, 88, 61, 34, 97, 92, 98, 34>>                \* -DX="a\b"
S_nl    == <<120, 10, 121>>                                      \* x, line feed, y
S_bad   == <<47, 255, 47, 99, 99>>                               \* a path that is not UTF-8

\* struct Execution
Exec(exe, args, wd, env) ==
    [executable |-> exe, arguments |-> args, working_dir |-> wd, environment |-> env]

X_cc    == Exec(S_cc, <<S_c, S_a_c, S_o, S_a_o>>, S_proj, EmptyMap)
X_ls    == Exec(S_ls, <<S_l>>, S_proj, (S_PATH :> S_bin))
X_esc   == Exec(S_cc, <<S_quote, S_nl>>, S_root, (S_PATH :> S_bin) @@ (S_HOME :> S_root))
X_empty == Exec(<<>>, <<>>, <<>>, EmptyMap)
X_big   == Exec(S_cc, <<Repeat(97, BigLen)>>, S_proj, EmptyMap)
X_bad   == Exec(S_bad, <<S_c>>, S_proj, EmptyMap)

\* struct Envelope { rid, timestamp, event: Event { pid, execution } }
Envelope(r, t, p, e) == [rid |-> r, timestamp |-> t, event |-> [pid |-> p, execution |-> e]]

Envelopes ==
    { Envelope(0, 0, 1, X_empty), Envelope(907, 1234, 42, X_cc), Envelope(907, 1235, 43, X_ls),
      Envelope(5, 60, 7, X_esc), Envelope(907, 1236, 44, X_big), Envelope(6, 1237, 45, X_bad) }

\* the orders in which a HashMap's iterator may visit its keys
RECURSIVE Orders(_)
Orders(K) ==
    IF K = {} THEN {<<>>}
    ELSE UNION { { <<k>> \o o : o \in Orders(K \ {k}) } : k \in K }

KeyOrders(x) == Orders(DOMAIN x.event.execution.environment)

-----------------------------------------------------------------------------
(* The parts of the state a specification does not use stay as they start *)

None == [kind |-> "None"]
NoTransform == [kind |-> "NoTransform"]

IdleLog ==
    /\ log = <<>>
    /\ written = <<>>
    /\ phase = "writing"
    /\ fragment = <<>>
    /\ rpos = 1
    /\ results = <<>>
    /\ gpos = 1
    /\ yielded = <<>>
    /\ warnings = 0
    /\ gstate = "open"

IdleCollect ==
    /\ rpc = <<>>
    /\ conn = <<>>
    /\ hpc = <<>>
    /\ queue = <<>>
    /\ wpc = <<>>
    /\ appended = <<>>

IdleTransform ==
    /\ tin = None
    /\ tout = None
    /\ tout2 = None
    /\ tstage = "idle"

IdlePass ==
    /\ pin = None
    /\ pout = None
    /\ pstage = "idle"

IdlePipeline ==
    /\ events = <<>>
    /\ epos = 1
    /\ entries = <<>>
    /\ exit_code = "running"

-----------------------------------------------------------------------------
(* The Event Log: writers append frames, readers decode them *)

\* x.write_into(&mut log)
WriteInto(x, order) ==
    /\ phase = "writing"
    /\ Len(written) < MaxFrames
    /\ \E w \in {write_into(x, order, log)} :
       /\ log' = w.out
       /\ written' = Append(written, [x |-> x, ok |-> w.ok, from |-> Len(log) + 1, to |-> Len(w.out)])
    /\ UNCHANGED <<phase, fragment, rpos, results, gpos, yielded, warnings, gstate>>
    /\ UNCHANGED <<collectVars, self, transformVars, passVars, pipeVars>>

\* the log is finished on a frame boundary
CloseLog ==
    /\ phase = "writing"
    /\ phase' = "closed"
    /\ UNCHANGED <<log, written, fragment, rpos, results, gpos, yielded, warnings, gstate>>
    /\ UNCHANGED <<collectVars, self, transformVars, passVars, pipeVars>>

\* the partial trailing frames a log may end with (a writer stopped mid-frame):
\* fewer than 4 bytes, or a prefix that announces more bytes than follow
Fragments == { <<0, 0>>, <<0>>, <<0, 0, 0, 5, 123>>, <<0, 0, 0, 120, 123, 34, 114>> }

\* the log is cut short inside a frame
TruncatedTail(f) ==
    /\ phase = "writing"
    /\ phase' = "closed"
    /\ fragment' = f
    /\ log' = log \o f
    /\ UNCHANGED <<written, rpos, results, gpos, yielded, warnings, gstate>>
    /\ UNCHANGED <<collectVars, self, transformVars, passVars, pipeVars>>

\* Envelope::read_from(&mut reader), called again until it returns an error
ReadFrom ==
    /\ phase = "closed"
    /\ \A i \in 1..Len(results) : results[i].ok
    /\ \E r \in {read_from(log, rpos)} :
       /\ results' = Append(results, r)
       /\ rpos' = r.pos
    /\ UNCHANGED <<log, written, phase, fragment, gpos, yielded, warnings, gstate>>
    /\ UNCHANGED <<collectVars, self, transformVars, passVars, pipeVars>>

\* one step of the Event Source's sequence (spec 4.3): decode the next frame;
\* a clean end of file ends the sequence, any other failure ends it with a
\* warning; only the Execution is exposed
GenerateNext ==
    /\ phase = "closed"
    /\ gstate = "open"
    /\ IF gpos > Len(log)
       THEN /\ gstate' = "ended"
            /\ UNCHANGED <<gpos, yielded, warnings>>
       ELSE \E r \in {read_from(log, gpos)} :
            IF r.ok
            THEN /\ yielded' = Append(yielded, r.val.event.execution)
                 /\ gpos' = r.pos
                 /\ UNCHANGED <<warnings, gstate>>
            ELSE /\ gstate' = "failed"
                 /\ warnings' = warnings + 1
                 /\ gpos' = r.pos
                 /\ UNCHANGED yielded
    /\ UNCHANGED <<log, written, phase, fragment, rpos, results>>
    /\ UNCHANGED <<collectVars, self, transformVars, passVars, pipeVars>>

Init ==
    /\ IdleLog
    /\ IdleCollect
    /\ self = NoTransform
    /\ IdleTransform
    /\ IdlePass
    /\ IdlePipeline

Next ==
    \/ \E x \in Envelopes : \E order \in KeyOrders(x) : WriteInto(x, order)
    \/ CloseLog
    \/ \E f \in Fragments : TruncatedTail(f)
    \/ ReadFrom
    \/ GenerateNext

Spec == Init /\ [][Next]_vars

-----------------------------------------------------------------------------
(* Claims about the codec and the log *)

\* what write_into call i put into the log
Emitted(i) == SubSeq(log, written[i].from, written[i].to)

\* call i wrote a frame: 4 prefix bytes whose value is the number of bytes after them
CompleteFrame(i) ==
    /\ written[i].ok
    /\ Len(Emitted(i)) >= 4
    /\ SubSeq(Emitted(i), 1, 4) = to_be_bytes(Len(Emitted(i)) - 4)

\* C1: for any Envelope x that write_into has written (it returned Ok) into an
\* empty buffer, read_from on that buffer succeeds, returns an Envelope equal
\* to x and consumes exactly the bytes written.
C1_RoundTrip ==
    (Len(written) = 1 /\ written[1].ok /\ fragment = <<>> /\ Len(results) >= 1) =>
        /\ results[1].ok
        /\ results[1].val = written[1].x
        /\ results[1].pos = Len(log) + 1

\* C2: whatever the length L of the serialized text, write_into emits 4 + L
\* bytes and the value of the 4-byte big-endian prefix equals the number of
\* payload bytes that follow it.
C2_PrefixIsPayloadLength ==
    \A i \in 1..Len(written) : written[i].ok => CompleteFrame(i)

\* C8: a log of k complete frames followed by a partial trailing frame: the
\* first k read_from calls return the k envelopes in the order written, call
\* k + 1 returns an error, and the Event Source yields the k Executions in
\* order, none lost, and ends with a single warning (none on a clean end).
C8_PartialTrailingFrame ==
    (phase = "closed" /\ \A i \in 1..Len(written) : CompleteFrame(i)) =>
        LET k == Len(written) IN
        /\ Len(results) <= k + 1
        /\ \A i \in 1..Len(results) :
              IF i <= k THEN results[i].ok /\ results[i].val = written[i].x
              ELSE ~results[i].ok
        /\ Len(yielded) <= k
        /\ \A i \in 1..Len(yielded) : yielded[i] = written[i].x.event.execution
        /\ gstate # "open" => Len(yielded) = k
        /\ gstate = "open" => warnings = 0
        /\ gstate = "failed" => (fragment # <<>> /\ warnings = 1)
        /\ gstate = "ended" => (fragment = <<>> /\ warnings = 0)

\* two frames and a 2-byte fragment, read to the error by both readers
C8_Witness ==
    /\ phase = "closed"
    /\ Len(written) = 2
    /\ \A i \in 1..2 : CompleteFrame(i)
    /\ fragment = <<0, 0>>
    /\ Len(results) = 3
    /\ gstate = "failed"
    /\ Len(yielded) = 2
    /\ yielded[1] # yielded[2]

-----------------------------------------------------------------------------
(* SemanticTransform  (bear/src/bin/main.rs)                                *)
(* Flags, paths and file names of a Meaning are TLA+ strings.              *)

\* SemanticTransform::Transform { arguments_to_add, arguments_to_remove }
Transform(add, remove) ==
    [kind |-> "Transform", arguments_to_add |-> add, arguments_to_remove |-> remove]

\* config::Output, as From<&config::Output> reads it
Clang(add, remove) ==
    [kind |-> "Clang", transform |-> [arguments_to_add |-> add, arguments_to_remove |-> remove]]
SemanticOutput == [kind |-> "Semantic"]

\* impl From<&config::Output> for SemanticTransform
FromConfig(config) ==
    IF config.kind = "Clang"
    THEN IF config.transform.arguments_to_add = <<>> /\ config.transform.arguments_to_remove = <<>>
         THEN NoTransform
         ELSE Transform(config.transform.arguments_to_add, config.transform.arguments_to_remove)
    ELSE NoTransform

\* semantic::CompilerPass
Compile(source, output, flags) ==
    [kind |-> "Compile", source |-> source, output |-> output, flags |-> flags]
Preprocess == [kind |-> "Preprocess"]

\* semantic::Meaning
Ignored == [kind |-> "Ignored"]
Compiler(compiler, working_dir, passes) ==
    [kind |-> "Compiler", compiler |-> compiler, working_dir |-> working_dir, passes |-> passes]

\* the unwinding of panic!("This is a bug! ...")
Panic == [kind |-> "Panic"]

\* Vec::contains
Contains(v, x) == \E i \in 1..Len(v) : v[i] = x

\* variant: the filter predicate without its negation
RECURSIVE FilterFlagsKeepListed(_, _)
FilterFlagsKeepListed(flags, arguments_to_remove) ==
    IF flags = <<>> THEN <<>>
    ELSE IF Contains(arguments_to_remove, Head(flags))
         THEN <<Head(flags)>> \o FilterFlagsKeepListed(Tail(flags), arguments_to_remove)
         ELSE FilterFlagsKeepListed(Tail(flags), arguments_to_remove)

\* flags.into_iter().filter(|flag| !arguments_to_remove.contains(flag))
RECURSIVE FilterFlags(_, _)
FilterFlags(flags, arguments_to_remove) ==
    IF flags = <<>> THEN <<>>
    ELSE IF ~Contains(arguments_to_remove, Head(flags))
         THEN <<Head(flags)>> \o FilterFlags(Tail(flags), arguments_to_remove)
         ELSE FilterFlags(Tail(flags), arguments_to_remove)

\* variant: the filter without the chain of arguments_to_add; FilterFlags is
\* spelled out by position as it is defined below
transform_pass_without_chain(this, pass) ==
    IF pass.kind = "Compile"
    THEN IF this.kind = "Transform"
         THEN Compile(pass.source, pass.output,
                      SelectSeq(pass.flags,
                                LAMBDA flag : ~Contains(this.arguments_to_remove, flag)))
         ELSE Panic
    ELSE pass

\* variant: the fault on the other arm, a pass that is not a Compile pass in
\* the Transform state
transform_pass_fault_on_other(this, pass) ==
    IF pass.kind = "Compile"
    THEN IF this.kind = "Transform"
         THEN Compile(pass.source, pass.output,
                      SelectSeq(pass.flags,
                                LAMBDA flag : ~Contains(this.arguments_to_remove, flag))
                      \o this.arguments_to_add)
         ELSE pass
    ELSE IF this.kind = "Transform" THEN Panic ELSE pass

\* SemanticTransform::transform_pass(&self, pass)
transform_pass(this, pass) ==
    IF pass.kind = "Compile"
    THEN IF this.kind = "Transform"
         THEN Compile(pass.source, pass.output,
                      FilterFlags(pass.flags, this.arguments_to_remove) \o this.arguments_to_add)
         ELSE Panic
    ELSE pass

\* variant: apply that keeps the Compile passes only
apply_compile_passes_only(this, input) ==
    IF input.kind = "Compiler" /\ this.kind = "Transform"
    THEN Compiler(input.compiler, input.working_dir,
                  LET kept == SelectSeq(input.passes, LAMBDA pass : pass.kind = "Compile")
                  IN [i \in 1..Len(kept) |-> transform_pass(this, kept[i])])
    ELSE input

\* variant: apply without the guard on the state
apply_without_state_guard(this, input) ==
    IF input.kind = "Compiler"
    THEN LET passes_transformed ==
                 [i \in 1..Len(input.passes) |-> transform_pass(this, input.passes[i])]
         IN IF \E i \in 1..Len(input.passes) : passes_transformed[i] = Panic
            THEN Panic
            ELSE Compiler(input.compiler, input.working_dir, passes_transformed)
    ELSE input

\* SemanticTransform::apply(&self, input); a panic in transform_pass unwinds
\* through the collect
SemanticTransform_apply(this, input) ==
    IF input.kind = "Compiler" /\ this.kind = "Transform"
    THEN LET passes_transformed ==
                 [i \in 1..Len(input.passes) |-> transform_pass(this, input.passes[i])]
         IN IF \E i \in 1..Len(input.passes) : passes_transformed[i] = Panic
            THEN Panic
            ELSE Compiler(input.compiler, input.working_dir, passes_transformed)
    ELSE input

(* Bounds and samples of the transformer *)

MaxPasses == 2
MaxFlags == 3

\* all sequences over S of length at most n
SeqsUpTo(S, n) == UNION { [1..k -> S] : k \in 0..n }

AddLists == { <<>>, <<"-DFOO">>, <<"-DFOO", "-O2">>, <<"-Wall">> }
RemoveLists == { <<>>, <<"-Wall">>, <<"-Wall", "-c">>, <<"-DFOO">> }

\* what a configuration file can hold
Configs == { Clang(a, r) : a \in AddLists, r \in RemoveLists } \cup { SemanticOutput }

\* every value of the enum, for a direct call of transform_pass
Transforms == { Transform(a, r) : a \in AddLists, r \in RemoveLists } \cup { NoTransform }

SamplePasses ==
    { Compile("a.c", "a.o", <<"-c", "-Wall", "a.c">>),
      Compile("b.c", "b.o", <<"-Wall", "-c", "-Wall">>),
      Compile("c.c", "c.o", <<"-O2", "-DFOO">>),
      Compile("d.c", "d.o", <<>>),
      Preprocess }

Meanings ==
    { Ignored } \cup { Compiler("/usr/bin/cc", "/proj", ps) : ps \in SeqsUpTo(SamplePasses, MaxPasses) }

PassFlags == { "-c", "-Wall", "a.c", "-DFOO" }

Passes == { Compile("a.c", "a.o", fs) : fs \in SeqsUpTo(PassFlags, MaxFlags) } \cup { Preprocess }

\* semantic_transform.apply(semantic)
Apply(m) ==
    /\ tstage = "idle"
    /\ tin' = m
    /\ tout' = SemanticTransform_apply(self, m)
    /\ tstage' = "once"
    /\ UNCHANGED <<tout2, self, logVars, collectVars, passVars, pipeVars>>

\* the result handed to apply once more
ApplyAgain ==
    /\ tstage = "once"
    /\ tout # Panic
    /\ tout2' = SemanticTransform_apply(self, tout)
    /\ tstage' = "twice"
    /\ UNCHANGED <<tin, tout, self, logVars, collectVars, passVars, pipeVars>>

InitTransform ==
    /\ self \in { FromConfig(c) : c \in Configs }
    /\ IdleTransform
    /\ IdleLog
    /\ IdleCollect
    /\ IdlePass
    /\ IdlePipeline

NextTransform ==
    \/ \E m \in Meanings : Apply(m)
    \/ ApplyAgain

SpecTransform == InitTransform /\ [][NextTransform]_vars

\* self.transform_pass(pass), called on its own
TransformPass(pass) ==
    /\ pstage = "idle"
    /\ pin' = pass
    /\ pout' = transform_pass(self, pass)
    /\ pstage' = "called"
    /\ UNCHANGED <<self, logVars, collectVars, transformVars, pipeVars>>

\* the next call starts from the same SemanticTransform
PassReturn ==
    /\ pstage = "called"
    /\ pin' = None
    /\ pout' = None
    /\ pstage' = "idle"
    /\ UNCHANGED <<self, logVars, collectVars, transformVars, pipeVars>>

InitPass ==
    /\ self \in Transforms
    /\ IdlePass
    /\ IdleLog
    /\ IdleCollect
    /\ IdleTransform
    /\ IdlePipeline

NextPass ==
    \/ \E p \in Passes : TransformPass(p)
    \/ PassReturn

SpecPass == InitPass /\ [][NextPass]_vars

-----------------------------------------------------------------------------
(* Claims about the transformer *)

Range(v) == { v[i] : i \in 1..Len(v) }

\* the positions of `flags` whose flag is no member of `remove`
Kept(flags, remove) == { i \in 1..Len(flags) : flags[i] \notin Range(remove) }

\* the j-th smallest member of a set of positions
Nth(I, j) == CHOOSE i \in I : Cardinality({ h \in I : h <= i }) = j

\* `out` is `flags` with every member of `remove` deleted, the rest in their
\* order, followed by `add`
IsRewriteOf(out, flags, add, remove) ==
    LET keep == Kept(flags, remove)
        n == Cardinality(keep)
    IN /\ Len(out) = n + Len(add)
       /\ \A j \in 1..n : out[j] = flags[Nth(keep, j)]
       /\ \A j \in 1..Len(add) : out[n + j] = add[j]

\* C3: in the Transform state, transform_pass of a Compile pass returns the
\* Compile pass of the same source and output whose flags are the original
\* flags with every element equal to a member of arguments_to_remove deleted
\* (all occurrences, survivors in their order), followed by arguments_to_add
\* in configured order.
C3_RewriteOfCompilePass ==
    (pstage = "called" /\ self.kind = "Transform" /\ pin.kind = "Compile") =>
        /\ pout.kind = "Compile"
        /\ pout.source = pin.source
        /\ pout.output = pin.output
        /\ IsRewriteOf(pout.flags, pin.flags, self.arguments_to_add, self.arguments_to_remove)

\* Scenario C: remove = ["-Wall"], add = ["-DFOO"], flags = ["-c", "-Wall", "a.c"]
C3_Witness ==
    /\ pstage = "called"
    /\ self = Transform(<<"-DFOO">>, <<"-Wall">>)
    /\ pin = Compile("a.c", "a.o", <<"-c", "-Wall", "a.c">>)
    /\ pout = Compile("a.c", "a.o", <<"-c", "a.c", "-DFOO">>)

\* arguments_to_add and arguments_to_remove have no element in common
Disjoint(t) ==
    t.kind = "Transform" => Range(t.arguments_to_add) \cap Range(t.arguments_to_remove) = {}

HasCompilePass(m) ==
    m.kind = "Compiler" /\ \E i \in 1..Len(m.passes) : m.passes[i].kind = "Compile"

\* C4 as claimed: with disjoint add and remove lists, apply(apply(m)) = apply(m).
C4_Idempotent ==
    (tstage = "twice" /\ Disjoint(self)) => tout2 = tout

\* C4 as amended: with disjoint add and remove lists, apply(apply(m)) is
\* apply(m) with arguments_to_add appended once more to the flags of every
\* Compile pass; the two are equal exactly when the state is NoTransform,
\* arguments_to_add is empty or m has no Compile pass.
C4_SecondApplyAppendsAgain ==
    (tstage = "twice" /\ Disjoint(self)) =>
        /\ (tout2 = tout) <=>
              (self.kind = "NoTransform" \/ self.arguments_to_add = <<>> \/ ~HasCompilePass(tin))
        /\ (self.kind = "Transform" /\ tin.kind = "Compiler") =>
              /\ tout2.kind = "Compiler"
              /\ Len(tout2.passes) = Len(tout.passes)
              /\ \A i \in 1..Len(tout.passes) :
                    IF tout.passes[i].kind = "Compile"
                    THEN tout2.passes[i] =
                            [tout.passes[i] EXCEPT !.flags = @ \o self.arguments_to_add]
                    ELSE tout2.passes[i] = tout.passes[i]

C4_Witness ==
    /\ tstage = "twice"
    /\ self = Transform(<<"-DFOO">>, <<"-Wall">>)
    /\ tin = Compiler("/usr/bin/cc", "/proj", << Compile("a.c", "a.o", <<"-c", "-Wall", "a.c">>) >>)
    /\ tout.passes[1].flags = <<"-c", "a.c", "-DFOO">>
    /\ tout2.passes[1].flags = <<"-c", "a.c", "-DFOO", "-DFOO">>

\* C5: apply of a Compiler meaning with k passes returns a Compiler meaning
\* with the same compiler and working_dir and k passes; pass i keeps its
\* variant, source and output, and only the flags of a Compile pass may differ.
C5_MultiPassPreservation ==
    (tstage # "idle" /\ tin.kind = "Compiler") =>
        /\ tout.kind = "Compiler"
        /\ tout.compiler = tin.compiler
        /\ tout.working_dir = tin.working_dir
        /\ Len(tout.passes) = Len(tin.passes)
        /\ \A i \in 1..Len(tin.passes) :
              IF tin.passes[i].kind = "Compile"
              THEN /\ tout.passes[i].kind = "Compile"
                   /\ tout.passes[i].source = tin.passes[i].source
                   /\ tout.passes[i].output = tin.passes[i].output
              ELSE tout.passes[i] = tin.passes[i]

\* two passes, the flags of the Compile pass rewritten, the other pass kept
C5_Witness ==
    /\ tstage = "once"
    /\ self.kind = "Transform"
    /\ tin.kind = "Compiler"
    /\ Len(tin.passes) = 2
    /\ tin.passes[1] = Preprocess
    /\ tin.passes[2].kind = "Compile"
    /\ tout.passes[2].flags # tin.passes[2].flags

\* C6: apply never reaches the panic of transform_pass, in either configured
\* state and for every Meaning; applied to Ignored, or to a Compiler meaning
\* none of whose passes is a Compile pass, it returns its input.
C6_ApplyNeverFails ==
    /\ tstage # "idle" => tout # Panic
    /\ tstage = "twice" => tout2 # Panic
    /\ (tstage # "idle" /\ ~HasCompilePass(tin)) => tout = tin

\* the combination that transform_pass refuses is never handed to it by apply
C6_Witness ==
    /\ tstage = "once"
    /\ self = NoTransform
    /\ HasCompilePass(tin)
    /\ tout = tin

\* C10 as claimed: transform_pass reaches the fault exactly when it is called
\* on a non-Compile pass in the Transform state.
C10_FaultOnNonCompileInTransform ==
    pstage = "called" =>
        ((pout = Panic) <=> (self.kind = "Transform" /\ pin.kind # "Compile"))

\* C10 as amended: transform_pass reaches the fault exactly when it is called
\* on a Compile pass while not in the Transform state; every other
\* combination returns a pass, and a non-Compile pass is returned as it is.
C10_FaultOnCompileInNoTransform ==
    pstage = "called" =>
        /\ (pout = Panic) <=> (self.kind # "Transform" /\ pin.kind = "Compile")
        /\ pout # Panic => pout.kind = pin.kind
        /\ pin.kind # "Compile" => pout = pin

C10_Witness ==
    /\ pstage = "called"
    /\ self = NoTransform
    /\ pin.kind = "Compile"
    /\ pout = Panic

-----------------------------------------------------------------------------
(* Application::run in Semantic mode  (bear/src/bin/main.rs)                *)

\* semantic::RecognitionResult
NotRecognized == [kind |-> "NotRecognized"]
RecognizedOk(meaning) == [kind |-> "Recognized", ok |-> TRUE, meaning |-> meaning]
RecognizedErr(reason) == [kind |-> "Recognized", ok |-> FALSE, reason |-> reason]

X_version == Exec(S_cc, <<S_vers>>, S_proj, EmptyMap)                  \* cc --version
X_two     == Exec(S_cc, <<S_c, S_Wall, S_a_c, S_b_c>>, S_proj, EmptyMap) \* cc -c -Wall a.c b.c
X_nosrc   == Exec(S_cc, <<S_c>>, S_proj, EmptyMap)                     \* cc -c

\* semantic::Tool::recognize, on the sample executions: spec 4.4 and the
\* scenarios A and B of spec 8
recognize(execution) ==
    CASE execution = X_cc ->
            RecognizedOk(Compiler("/usr/bin/cc", "/proj",
                                  << Compile("a.c", "a.o", <<"-c", "-o", "a.o">>) >>))
      [] execution = X_two ->
            RecognizedOk(Compiler("/usr/bin/cc", "/proj",
                                  << Compile("a.c", "a.o", <<"-c", "-Wall">>),
                                     Compile("b.c", "b.o", <<"-c", "-Wall">>) >>))
      [] execution = X_version -> RecognizedOk(Ignored)
      [] execution = X_nosrc -> RecognizedErr("source file is not found")
      [] OTHER -> NotRecognized

\* variant: every recognized meaning is passed on, Ignored included
SemanticRecognition_apply_keeps_ignored(execution) ==
    LET r == recognize(execution) IN
    IF r.kind = "Recognized" /\ r.ok THEN << r.meaning >> ELSE <<>>

\* SemanticRecognition::apply(&self, execution) -> Option<Meaning>:
\* <<>> is None, <<m>> is Some(m); the arms in the order of the match
SemanticRecognition_apply(execution) ==
    LET r == recognize(execution) IN
    IF r.kind = "Recognized" /\ r.ok /\ r.meaning = Ignored THEN <<>>
    ELSE IF r.kind = "Recognized" /\ r.ok THEN << r.meaning >>
    ELSE IF r.kind = "Recognized" /\ ~r.ok THEN <<>>
    ELSE <<>>

MaxEvents == 3

PipelineExecutions == { X_cc, X_two, X_version, X_nosrc, X_ls }

PipelineConfigs == { SemanticOutput, Clang(<<"-DFOO">>, <<"-Wall">>), Clang(<<>>, <<"-c">>) }

\* output_writer.run(entries) pulls the next entry's source: one Execution
\* goes through generate(), flat_map(recognition.apply), map(transform.apply)
PullExecution ==
    /\ exit_code = "running"
    /\ epos <= Len(events)
    /\ entries' = entries \o
          [ i \in 1..Len(SemanticRecognition_apply(events[epos])) |->
                SemanticTransform_apply(self, SemanticRecognition_apply(events[epos])[i]) ]
    /\ epos' = epos + 1
    /\ UNCHANGED <<events, exit_code, self, logVars, collectVars, transformVars, passVars>>

\* the entries are exhausted and written: Ok(_) => ExitCode::SUCCESS
WriterSucceeds ==
    /\ exit_code = "running"
    /\ epos > Len(events)
    /\ exit_code' = "SUCCESS"
    /\ UNCHANGED <<events, epos, entries, self, logVars, collectVars, transformVars, passVars>>

\* the output cannot be written: Err(_) => ExitCode::FAILURE
WriterFails ==
    /\ exit_code = "running"
    /\ exit_code' = "FAILURE"
    /\ UNCHANGED <<events, epos, entries, self, logVars, collectVars, transformVars, passVars>>

InitPipeline ==
    /\ events \in SeqsUpTo(PipelineExecutions, MaxEvents)
    /\ epos = 1
    /\ entries = <<>>
    /\ exit_code = "running"
    /\ self \in { FromConfig(c) : c \in PipelineConfigs }
    /\ IdleLog
    /\ IdleCollect
    /\ IdleTransform
    /\ IdlePass

NextPipeline ==
    \/ PullExecution
    \/ WriterSucceeds
    \/ WriterFails

SpecPipeline == InitPipeline /\ [][NextPipeline]_vars

\* execution i of the event source is recognized as a compiler call
IsCompilerCall(i) ==
    LET r == recognize(events[i]) IN
    r.kind = "Recognized" /\ r.ok /\ r.meaning.kind = "Compiler"

\* C9: the sequence handed to the output writer is exactly the transformed
\* meanings of the executions recognized as Recognized(Ok(Compiler{..})), in
\* the order of the event source; executions that are not recognized, are
\* Ignored or failed recognition contribute nothing and stop nothing: a run
\* that ends with SUCCESS has processed every execution.
C9_PipelineFiltersInOrder ==
    LET done == { i \in 1..(epos - 1) : IsCompilerCall(i) } IN
    /\ Len(entries) = Cardinality(done)
    /\ \A j \in 1..Len(entries) :
          entries[j] = SemanticTransform_apply(self, recognize(events[Nth(done, j)]).meaning)
    /\ exit_code = "SUCCESS" => epos = Len(events) + 1

\* a failed recognition and an unrecognized execution before a compiler call
C9_Witness ==
    /\ exit_code = "SUCCESS"
    /\ events = << X_nosrc, X_ls, X_two >>
    /\ self = Transform(<<"-DFOO">>, <<"-Wall">>)
    /\ Len(entries) = 1
    /\ entries[1].passes[2].flags = <<"-c", "-DFOO">>

-----------------------------------------------------------------------------
(* Reporters and the Collector  (spec 4.2 and 5; the modules collector and  *)
(* reporter are declared in intercept/src/lib.rs)                          *)

NReporters == 3

Reporters == 1..NReporters

ReportedExecutions == << X_cc, X_esc, X_ls, X_empty >>

\* the Envelope Reporter r sends: its own ReporterId, its clock, its process
EnvOf(r) ==
    Envelope(r, 1000 + r, 40 + r, ReportedExecutions[((r - 1) % Len(ReportedExecutions)) + 1])

\* Reporter r: the first write_all of write_into, on its own connection
ReporterWriteLength(r, order) ==
    /\ rpc[r].pc = "length"
    /\ \E f \in {FrameParts(EnvOf(r), order)} :
       /\ f.ok
       /\ conn' = [conn EXCEPT ![r] = @ \o f.prefix]
       /\ rpc' = [rpc EXCEPT ![r] = [pc |-> "payload", bytes |-> f.bytes]]
    /\ UNCHANGED <<hpc, queue, wpc, appended, log>>
    /\ UNCHANGED <<written, phase, fragment, rpos, results, gpos, yielded, warnings, gstate>>
    /\ UNCHANGED <<self, transformVars, passVars, pipeVars>>

\* Reporter r: the second write_all; the connection is then closed
ReporterWritePayload(r) ==
    /\ rpc[r].pc = "payload"
    /\ conn' = [conn EXCEPT ![r] = @ \o rpc[r].bytes]
    /\ rpc' = [rpc EXCEPT ![r] = [pc |-> "done"]]
    /\ UNCHANGED <<hpc, queue, wpc, appended, log>>
    /\ UNCHANGED <<written, phase, fragment, rpos, results, gpos, yielded, warnings, gstate>>
    /\ UNCHANGED <<self, transformVars, passVars, pipeVars>>

\* read_from on a connection returns once the frame has arrived or the peer
\* has closed the connection
CanReturn(r) ==
    \/ rpc[r].pc = "done"
    \/ /\ Len(conn[r]) >= 4
       /\ from_be_bytes(SubSeq(conn[r], 1, 4)) <= Len(conn[r]) - 4

\* the handler of connection r decodes the incoming frame and hands the
\* Envelope to the writer; a frame that does not decode is dropped
HandlerDecode(r) ==
    /\ hpc[r] = "reading"
    /\ CanReturn(r)
    /\ \E d \in {read_from(conn[r], 1)} :
       IF d.ok
       THEN /\ queue' = Append(queue, d.val)
            /\ hpc' = [hpc EXCEPT ![r] = "done"]
       ELSE /\ hpc' = [hpc EXCEPT ![r] = "failed"]
            /\ UNCHANGED queue
    /\ UNCHANGED <<rpc, conn, wpc, appended, log>>
    /\ UNCHANGED <<written, phase, fragment, rpos, results, gpos, yielded, warnings, gstate>>
    /\ UNCHANGED <<self, transformVars, passVars, pipeVars>>

\* the single writer takes the next Envelope: the first write_all of write_into
WriterWriteLength(order) ==
    /\ wpc = <<>>
    /\ queue # <<>>
    /\ \E f \in {FrameParts(Head(queue), order)} :
       /\ f.ok
       /\ log' = log \o f.prefix
       /\ wpc' = << f.bytes >>
    /\ queue' = Tail(queue)
    /\ appended' = Append(appended, Head(queue))
    /\ UNCHANGED <<rpc, conn, hpc>>
    /\ UNCHANGED <<written, phase, fragment, rpos, results, gpos, yielded, warnings, gstate>>
    /\ UNCHANGED <<self, transformVars, passVars, pipeVars>>

\* the single writer: the second write_all
WriterWritePayload ==
    /\ wpc # <<>>
    /\ log' = log \o wpc[1]
    /\ wpc' = <<>>
    /\ UNCHANGED <<rpc, conn, hpc, queue, appended>>
    /\ UNCHANGED <<written, phase, fragment, rpos, results, gpos, yielded, warnings, gstate>>
    /\ UNCHANGED <<self, transformVars, passVars, pipeVars>>

InitCollect ==
    /\ rpc = [r \in Reporters |-> [pc |-> "length"]]
    /\ conn = [r \in Reporters |-> <<>>]
    /\ hpc = [r \in Reporters |-> "reading"]
    /\ queue = <<>>
    /\ wpc = <<>>
    /\ appended = <<>>
    /\ IdleLog
    /\ self = NoTransform
    /\ IdleTransform
    /\ IdlePass
    /\ IdlePipeline

NextCollect ==
    \/ \E r \in Reporters : \E order \in KeyOrders(EnvOf(r)) : ReporterWriteLength(r, order)
    \/ \E r \in Reporters : ReporterWritePayload(r)
    \/ \E r \in Reporters : HandlerDecode(r)
    \/ \E order \in KeyOrders(IF queue = <<>> THEN EnvOf(1) ELSE Head(queue)) : WriterWriteLength(order)
    \/ WriterWritePayload

SpecCollect == InitCollect /\ [][NextCollect]_vars

\* the Envelopes read_from decodes from the stream, frame after frame, and
\* the position of the first frame that does not decode
RECURSIVE ReadAll(_, _, _)
ReadAll(bs, p, acc) ==
    Bind(read_from(bs, p), LAMBDA d :
        IF d.ok THEN ReadAll(bs, d.pos, Append(acc, d.val))
        ELSE [envelopes |-> acc, rest |-> p])

AllReported ==
    /\ \A r \in Reporters : rpc[r].pc = "done" /\ hpc[r] # "reading"
    /\ queue = <<>>
    /\ wpc = <<>>

\* C7: N Reporters concurrently send one Envelope each, as a length write
\* followed by a payload write: under every interleaving the Event Log holds
\* whole frames only, in the order the writer took them (at most the frame
\* being written is still partial, and it is the last), and once everything
\* is reported it holds exactly N frames, one per Envelope sent.
C7_LogHoldsWholeFrames ==
    LET got == ReadAll(log, 1, <<>>) IN
    /\ IF wpc = <<>>
       THEN got.envelopes = appended /\ got.rest = Len(log) + 1
       ELSE /\ got.envelopes = SubSeq(appended, 1, Len(appended) - 1)
            /\ got.rest = Len(log) - 3
    /\ AllReported =>
          /\ Len(got.envelopes) = NReporters
          /\ \A r \in Reporters : \E i \in 1..NReporters : got.envelopes[i] = EnvOf(r)

\* every Envelope is in the log, the last Reporter's first
C7_Witness ==
    /\ AllReported
    /\ Len(appended) = NReporters
    /\ appended[1] = EnvOf(NReporters)
    /\ Len(log) > 4 * NReporters

====
